---- MODULE Spec2Model ----
(***************************************************************************)
(* A model of dice-group/persona-db: the extractor (utils.py), the         *)
(* generation worker (main.py) and the conversion pipeline (converter.py). *)
(*                                                                         *)
(* Conventions.  A decoded JSON value is a record [k, v]: k is its Python  *)
(* type and v the sequence of its lexical forms (one for a scalar, the     *)
(* items of a list, trait/score alternating for a dict).  A Python dict    *)
(* (a record, a ledger entry) is a sequence of <<key, value>> pairs in     *)
(* insertion order.  A graph is a set of triples [s, p, o, dt].            *)
(***************************************************************************)
EXTENDS Integers, Sequences, FiniteSets, TLC

\* ------------------------------------------------------------------ bounds
MaxId == 1
MaxRuns == 3
MaxEdits == 1
MaxGens == 2
MaxLen == 4

Ids == 0..MaxId

\* ------------------------------------------------------- Python values
Val(k, v) == [k |-> k, v |-> v]
NullV == Val("null", <<>>)
IntV(s) == Val("int", <<s>>)
FloatV(s) == Val("float", <<s>>)
StrV(s) == Val("str", <<s>>)
ListV(items) == Val("list", items)
DictV(pairs) == Val("dict", pairs)

Ok(lex) == [exc |-> "none", lex |-> lex]
Raise(e) == [exc |-> e, lex |-> ""]

\* Strings Python's int() parses, and the digits it yields.
IntStrings == {"32", "41"}
\* Strings Python's float() parses ("inf" and "nan" among them).
FloatStrings == {"32", "41", "1.5", "52000.5", "inf", "nan"}

\* repr(float(x)) for the numerals of the model.
FloatLex(s) ==
    CASE s = "32" -> "32.0"
      [] s = "41" -> "41.0"
      [] OTHER -> s

\* int(x) of a float numeral: truncation toward zero.
TruncLex(s) ==
    CASE s = "1.5" -> "1"
      [] s = "52000.5" -> "52000"
      [] s = "32.0" -> "32"
      [] s = "41.0" -> "41"
      [] OTHER -> s

\* Python's int(value): ValueError for an unparsable string or nan, TypeError
\* for a list or dict, OverflowError for an infinite float.
py_int(value) ==
    CASE value.k = "int" -> Ok(value.v[1])
      [] value.k = "float" ->
            IF value.v[1] = "inf" THEN Raise("OverflowError")
            ELSE IF value.v[1] = "nan" THEN Raise("ValueError")
            ELSE Ok(TruncLex(value.v[1]))
      [] value.k = "str" ->
            IF value.v[1] \in IntStrings THEN Ok(value.v[1]) ELSE Raise("ValueError")
      [] OTHER -> Raise("TypeError")

\* Python's float(value).
py_float(value) ==
    CASE value.k = "int" -> Ok(FloatLex(value.v[1]))
      [] value.k = "float" -> Ok(value.v[1])
      [] value.k = "str" ->
            IF value.v[1] \in FloatStrings THEN Ok(FloatLex(value.v[1]))
            ELSE Raise("ValueError")
      [] OTHER -> Raise("TypeError")

\* Python's str(value).
py_str(value) ==
    CASE value.k = "list" -> "[list]"
      [] value.k = "dict" -> "{dict}"
      [] OTHER -> value.v[1]

\* ------------------------------------------------------- Python dicts
RECURSIVE DictHas(_, _)
DictHas(d, key) ==
    IF d = <<>> THEN FALSE
    ELSE IF Head(d)[1] = key THEN TRUE ELSE DictHas(Tail(d), key)

RECURSIVE DictGet(_, _)
\* d.get(key): the value, or NullV (None) when the key is missing.
DictGet(d, key) ==
    IF d = <<>> THEN NullV
    ELSE IF Head(d)[1] = key THEN Head(d)[2] ELSE DictGet(Tail(d), key)

\* d[key] = value: in place for a key the dict has, appended otherwise.
DictSet(d, key, value) ==
    IF DictHas(d, key)
    THEN [i \in 1..Len(d) |-> IF d[i][1] = key THEN <<key, value>> ELSE d[i]]
    ELSE Append(d, <<key, value>>)

DictKeys(d) == {d[i][1] : i \in 1..Len(d)}

\* -------------------------------------------------------- field schema
\* FIELD_DEFINITIONS: the numeric, the list-valued and the nested field, and two
\* of the string fields, stand for the 34 entries.
FIELD_DEFINITIONS ==
    <<  <<"age", "integer", "age">>,
        <<"big five scores", "special_nested", "bigFiveScores">>,
        <<"household language", "string_or_list", "householdLanguage">>,
        <<"income", "float", "income">>,
        <<"race", "string", "race">>,
        <<"description", "string", "description">>  >>

FieldKeys == {FIELD_DEFINITIONS[i][1] : i \in 1..Len(FIELD_DEFINITIONS)}
FieldDef(key) ==
    LET i == CHOOSE j \in 1..Len(FIELD_DEFINITIONS) : FIELD_DEFINITIONS[j][1] = key
    IN  [type |-> FIELD_DEFINITIONS[i][2], pred |-> FIELD_DEFINITIONS[i][3]]

\* str(person_id), also the last segment of the persona URI.
IdStrings == <<"0", "1", "2", "3", "4">>
IdStr(i) == IdStrings[i + 1]
IsDigit(s) == \E i \in 1..Len(IdStrings) : IdStrings[i] = s
IdOfStr(s) == (CHOOSE i \in 1..Len(IdStrings) : IdStrings[i] = s) - 1

\* BASE: the persona URI is BASE followed by the id.
BASE == "http://example.org/persona/"
URIRef(id) == [base |-> BASE, seg |-> IdStr(id)]

Triple(s, p, o, dt) == [s |-> s, p |-> p, o |-> o, dt |-> dt]

\* process_single_field_to_rdf: the triples added to g and conversion_successful;
\* exc is the exception that leaves the function (OverflowError is not caught).
FieldOut(add, ok, exc) == [add |-> add, ok |-> ok, exc |-> exc]

process_single_field_to_rdf(person_uri, value, intended_type, pred) ==
    IF value.k = "null" THEN FieldOut({}, TRUE, "none")
    ELSE CASE intended_type = "string" ->
                FieldOut({Triple(person_uri, pred, py_str(value), "string")}, TRUE, "none")
           [] intended_type = "integer" ->
                LET r == py_int(value) IN
                IF r.exc = "none"
                THEN FieldOut({Triple(person_uri, pred, r.lex, "integer")}, TRUE, "none")
                ELSE IF r.exc \in {"ValueError", "TypeError"}
                THEN FieldOut({Triple(person_uri, pred, py_str(value), "string")}, FALSE, "none")
                ELSE FieldOut({}, TRUE, r.exc)
           [] intended_type = "float" ->
                LET r == py_float(value) IN
                IF r.exc = "none"
                THEN FieldOut({Triple(person_uri, pred, r.lex, "float")}, TRUE, "none")
                ELSE IF r.exc \in {"ValueError", "TypeError"}
                THEN FieldOut({Triple(person_uri, pred, py_str(value), "string")}, FALSE, "none")
                ELSE FieldOut({}, TRUE, r.exc)
           [] intended_type = "string_or_list" ->
                IF value.k = "list"
                THEN FieldOut({Triple(person_uri, pred, value.v[i], "string") :
                                  i \in 1..Len(value.v)}, TRUE, "none")
                ELSE FieldOut({Triple(person_uri, pred, py_str(value), "string")}, TRUE, "none")
           [] OTHER -> FieldOut({}, TRUE, "none")

\* trait.replace(" ", "") with its first letter lower-cased: the predicate name
\* of a trait of "big five scores".
TraitPredicate(trait) ==
    CASE trait = "Openness" -> "openness"
      [] trait = " Agreeableness" -> "agreeableness"
      [] trait = "Neuroticism" -> "neuroticism"
      [] trait = " " -> ""
      [] OTHER -> trait

\* The score of a trait that is JSON null.
NullScore == "<null>"

RECURSIVE BigFiveTriples(_, _)
\* Lines 165-171: one string-typed triple per trait whose score is not None.
BigFiveTriples(person_uri, tv) ==
    IF Len(tv) < 2 THEN {}
    ELSE (IF tv[2] = NullScore THEN {}
          ELSE {Triple(person_uri, TraitPredicate(tv[1]), tv[2], "string")})
         \cup BigFiveTriples(person_uri, SubSeq(tv, 3, Len(tv)))

\* One iteration of the loop over data.items() (lines 163-178) on the
\* accumulator [g, warn, exc].
ConvertItem(person_uri, acc, key, value) ==
    IF key = "big five scores"
    THEN LET bfs_data == IF value.k = "dict" THEN value.v ELSE <<>>
         IN  [acc EXCEPT !.g = @ \cup BigFiveTriples(person_uri, bfs_data)]
    ELSE IF key \in FieldKeys
    THEN LET definition == FieldDef(key)
             r == process_single_field_to_rdf(person_uri, value, definition.type,
                                              definition.pred)
         IN  IF r.exc # "none" THEN [acc EXCEPT !.exc = r.exc]
             ELSE [g |-> acc.g \cup r.add, warn |-> acc.warn \/ ~r.ok, exc |-> "none"]
    ELSE acc

RECURSIVE ConvertItems(_, _, _)
ConvertItems(person_uri, items, acc) ==
    IF items = <<>> \/ acc.exc # "none" THEN acc
    ELSE ConvertItems(person_uri, Tail(items),
                      ConvertItem(person_uri, acc, Head(items)[1], Head(items)[2]))

\* The two triples every persona graph starts with (lines 157-158).
BaseTriples(person_id) ==
    { Triple(URIRef(person_id), "rdf:type", "ex:Persona", "uri"),
      Triple(URIRef(person_id), "ex:source", IdStr(person_id), "uri") }

\* The graph the loop builds, fallback triples included, before the function
\* decides what to return.
BuiltGraph(person_id, data) ==
    ConvertItems(URIRef(person_id), data,
                 [g |-> BaseTriples(person_id), warn |-> FALSE, exc |-> "none"])

\* convert_persona_json_to_rdf_graph: (graph or None, conversion_warnings_occurred).
\* isdict is isinstance(data, dict).
ConvOut(none, g, warn) == [none |-> none, g |-> g, warn |-> warn]

convert_persona_json_to_rdf_graph(person_id, isdict, data) ==
    IF ~isdict \/ data = <<>> THEN ConvOut(TRUE, {}, FALSE)
    ELSE LET b == BuiltGraph(person_id, data) IN
         IF b.exc # "none" THEN ConvOut(TRUE, {}, FALSE)
         ELSE IF b.warn THEN ConvOut(TRUE, {}, TRUE)
         ELSE ConvOut(FALSE, b.g, FALSE)

\* ------------------------------------------------------------ the files
\* A file of the input directory: absent, unparsable text, or a JSON document
\* whose root is a dict (data) or something else.
Absent == [kind |-> "absent", root |-> "none", data |-> <<>>]
Garbage == [kind |-> "text", root |-> "none", data |-> <<>>]
JsonDict(data) == [kind |-> "json", root |-> "dict", data |-> data]
JsonOther == [kind |-> "json", root |-> "list", data |-> <<>>]

\* load_json_file: the dict, or None for a missing file, invalid JSON or a root
\* that is not a dict.
load_json_file(file) ==
    IF file.kind = "json" /\ file.root = "dict"
    THEN [none |-> FALSE, data |-> file.data]
    ELSE [none |-> TRUE, data |-> <<>>]

\* assert_file_exists: os.path.isfile.
assert_file_exists(file) == file.kind # "absent"

\* convert_and_get_result_wrapper: the worker task.  raised is the
\* AssertionError of assert_file_exists, which is outside the try.
TaskOut(raised, status, g) == [state |-> "done", raised |-> raised, status |-> status, g |-> g]

convert_and_get_result_wrapper(person_id, file) ==
    IF ~assert_file_exists(file) THEN TaskOut(TRUE, "AssertionError", {})
    ELSE LET l == load_json_file(file) IN
         IF l.none THEN TaskOut(FALSE, "load_error", {})
         ELSE LET c == convert_persona_json_to_rdf_graph(person_id, TRUE, l.data) IN
              IF ~c.none THEN TaskOut(FALSE, "success", c.g)
              ELSE IF c.warn THEN TaskOut(FALSE, "conversion_warning", {})
              ELSE TaskOut(FALSE, "conversion_error_or_empty_data", {})

\* The path of the artifact of an id.
PathOf(id) == "persona_" \o IdStr(id) \o ".json"

\* ------------------------------------------------------- the two stores
\* The main store file (personas-db.ttl): absent, a Turtle document holding the
\* graph g, or text that does not parse.
NoFile == [kind |-> "absent", g |-> {}]
TurtleFile(g) == [kind |-> "turtle", g |-> g]

\* The ledger file (unprocessed_personas-db.json): absent, or a JSON object d
\* from str(id) to the entry.
EmptyLedger == [k \in {} |-> <<>>]
NoLedgerFile == [kind |-> "absent", d |-> EmptyLedger]
LedgerJson(d) == [kind |-> "json", d |-> d]

\* The temporary file of the commit (personas-db.ttl.tmp).
NoTmp == [state |-> "absent", g |-> {}]
PartialTmp == [state |-> "partial", g |-> {}]
CompleteTmp(g) == [state |-> "complete", g |-> g]

\* A variant of LoadMainGraph that starts every run from an empty graph.
LoadNothing(file) == {}

\* Lines 270-280: main_rdf_graph.parse(MAIN_RDF_FILE) when the file exists and
\* is not empty; an empty graph otherwise and when the parse fails.
LoadMainGraph(file) == IF file.kind = "turtle" THEN file.g ELSE {}

\* A variant of load_processed_persona_ids_from_rdf that finds no id.
LoadsNoIds(file) == {}

\* load_processed_persona_ids_from_rdf: the ids of the subjects typed ex:Persona
\* whose last URI segment is all digits; empty for a missing, empty or
\* unparsable file.
load_processed_persona_ids_from_rdf(file) ==
    IF file.kind # "turtle" THEN {}
    ELSE { IdOfStr(t.s.seg) :
             t \in { u \in file.g : u.p = "rdf:type" /\ u.o = "ex:Persona"
                                     /\ IsDigit(u.s.seg) } }

\* load_unprocessed_personas_data: {} for a missing or empty file and for one
\* load_json_file cannot load.
load_unprocessed_personas_data(file) ==
    IF file.kind = "json" THEN file.d ELSE EmptyLedger

LedgerPut(l, key, entry) ==
    [k \in DOMAIN l \cup {key} |-> IF k = key THEN entry ELSE l[k]]
\* A variant of LedgerDel that leaves the entry in place.
LedgerKeep(l, key) == l

\* del unprocessed_personas_data[key].
LedgerDel(l, key) == [k \in DOMAIN l \ {key} |-> l[k]]

RECURSIVE SortedIds(_)
\* sorted(..., key=lambda x: x[0]) of the candidate ids.
SortedIds(S) ==
    IF S = {} THEN <<>>
    ELSE LET m == CHOOSE x \in S : \A y \in S : x <= y
         IN  <<m>> \o SortedIds(S \ {m})

RECURSIVE GraphUnion(_)
\* main_graph += g_new for every new graph.
GraphUnion(graphs) ==
    IF graphs = <<>> THEN {} ELSE Head(graphs) \cup GraphUnion(Tail(graphs))

\* The statements of the main store whose subject is the persona id.
StatementsOf(g, id) == {t \in g : t.s = URIRef(id)}
IdsIn(g) == {id \in Ids : StatementsOf(g, id) # {}}

\* ---------------------------------------------------------- the extractor
\* A text is a sequence of tokens separated by whitespace: prose (no brace, no
\* backtick, not JSON), the marker ```json, the closing ```, a complete JSON
\* object with n top-level keys (r names its content), an object cut short (it
\* opens a brace and does not parse), a JSON array without braces, and a lone
\* closing brace.
Tok(t, n, r) == [t |-> t, n |-> n, r |-> r]
Prose == Tok("prose", 0, "")
Fence == Tok("fence", 0, "")
Close == Tok("close", 0, "")
Cut == Tok("cut", 0, "")
Arr == Tok("arr", 0, "")
RBrace == Tok("rbrace", 0, "")
Obj(n, r) == Tok("obj", n, r)

\* The field count the extractor accepts (utils.py: len(parsed_json) == 33).
ExpectedFields == 33

\* json.loads(str): the string is one JSON value and nothing else.
JsonLoads(str) ==
    IF Len(str) = 1 /\ str[1].t \in {"obj", "arr"}
    THEN [ok |-> TRUE, value |-> str[1]]
    ELSE [ok |-> FALSE, value |-> Prose]

\* isinstance(parsed_json, dict) and len(parsed_json) == 33.
Accepted(value) == value.t = "obj" /\ value.n = ExpectedFields

\* re.search(r"```json\s*(.*?)(?:```|(?=\s*[}\]]?\s*$))", text, re.DOTALL):
\* group(1).  After the first marker the lazy group ends at the next ``` (a
\* second marker starts with one), and without one where only whitespace and at
\* most one closing brace or bracket remain: a final lone brace is left out,
\* and a final object or array loses its last character and no longer parses.
FirstIndex(text, kinds) ==
    IF \E i \in 1..Len(text) : text[i].t \in kinds
    THEN CHOOSE i \in 1..Len(text) :
             text[i].t \in kinds /\ \A j \in 1..(i - 1) : text[j].t \notin kinds
    ELSE 0

\* The tokens that hold the marker, three backticks, an opening brace.
IsFence == {"fence"}
IsBacktick == {"fence", "close"}
HasBrace == {"obj", "cut"}

FencedGroup(text) ==
    LET f == FirstIndex(text, IsFence)
        tail == SubSeq(text, f + 1, Len(text))
        c == FirstIndex(tail, IsBacktick)
    IN  IF f = 0 THEN [found |-> FALSE, str |-> <<>>]
        ELSE IF c # 0 THEN [found |-> TRUE, str |-> SubSeq(tail, 1, c - 1)]
        ELSE IF tail = <<>> THEN [found |-> TRUE, str |-> <<>>]
        ELSE LET last == tail[Len(tail)] IN
             IF last.t = "rbrace"
             THEN [found |-> TRUE, str |-> SubSeq(tail, 1, Len(tail) - 1)]
             ELSE IF last.t \in {"obj", "arr"}
             THEN [found |-> TRUE, str |-> Append(SubSeq(tail, 1, Len(tail) - 1), Cut)]
             ELSE [found |-> TRUE, str |-> tail]

\* decoder.raw_decode(text[first_brace_idx:]): the JSON value that starts at the
\* first opening brace of the text, if one does.
FirstBrace(text) ==
    LET b == FirstIndex(text, HasBrace)
    IN  IF b # 0 /\ text[b].t = "obj"
        THEN [ok |-> TRUE, str |-> <<text[b]>>, value |-> text[b]]
        ELSE [ok |-> FALSE, str |-> <<>>, value |-> Prose]

\* A variant of extract_json_from_output that tries the first brace before the
\* fenced group.
extract_first_brace_first(text) ==
    LET m == FencedGroup(text)
        p == JsonLoads(m.str)
        d == FirstBrace(text)
    IN  IF d.ok /\ Accepted(d.value) THEN d.str
        ELSE IF m.found /\ p.ok /\ Accepted(p.value) THEN m.str
        ELSE text

\* extract_json_from_output: the fenced group if it is a 33-key dict, else the
\* object at the first brace if it is one, else the text itself.
extract_json_from_output(text) ==
    LET m == FencedGroup(text)
        p == JsonLoads(m.str)
        d == FirstBrace(text)
    IN  IF m.found /\ p.ok /\ Accepted(p.value) THEN m.str
        ELSE IF d.ok /\ Accepted(d.value) THEN d.str
        ELSE text

\* ------------------------------------------------------------ the inputs
\* Records of source artifacts: two that convert (age 32, and age "41" with an
\* income), one whose age is not a number, one whose age is an infinite float
\* (JSON 1e999 or Infinity decodes to inf).
RecGood1 == << <<"age", IntV("32")>>, <<"race", StrV("Latino")>> >>
RecGood2 == << <<"age", StrV("41")>>, <<"income", FloatV("52000.5")>> >>
RecBadAge == << <<"age", StrV("thirty-two")>>, <<"race", StrV("Latino")>> >>
RecInfAge == << <<"race", StrV("Latino")>>, <<"age", FloatV("inf")>> >>
\* The empty object {}.
RecEmpty == <<>>

\* What a source artifact persona_<id>.json may hold.
Contents ==
    {JsonOther, JsonDict(RecGood1), JsonDict(RecGood2), JsonDict(RecBadAge),
     JsonDict(RecInfAge), JsonDict(RecEmpty)}

\* The content of the object a generator text holds.
ObjData(r) ==
    CASE r = "good1" -> RecGood1
      [] r = "few" -> RecGood1
      [] r = "badage" -> RecBadAge
      [] OTHER -> <<>>

\* What the generator returns for a prompt: the out-of-memory signal (no
\* text), or a text: prose with a truncated object, a complete object alone or
\* in a fenced block, an object with one field missing, a JSON array.
OOM == <<Tok("oom", 0, "")>>
GenOutputs ==
    {OOM, <<Prose, Cut>>, <<Obj(ExpectedFields, "good1")>>,
     <<Fence, Obj(ExpectedFields, "badage"), Close>>,
     <<Obj(ExpectedFields - 1, "few")>>, <<Arr>>}

\* ------------------------------------------------------------- the state
VARIABLES
    artifacts,                  \* the input directory: [Ids -> file]
    errFiles,                   \* persona_<id>_error*.txt: [Ids -> "none" or a kind]
    mainFile,                   \* personas-db.ttl
    tmpFile,                    \* personas-db.ttl.tmp
    ledgerFile,                 \* unprocessed_personas-db.json
    pc,                         \* where process_all_personas is
    main_rdf_graph,             \* the in-memory main graph
    processed_ids,              \* processed_ids_in_main_rdf
    unprocessed_personas_data,  \* the in-memory ledger
    files_to_process_now,       \* the candidate ids, sorted
    futures,                    \* [candidate id -> the task's state and result]
    collected,                  \* how many futures the collect loop has handled
    newly_successful_graphs,
    runs, edits, gens,          \* counters that bound the model
    text, extracted, epc,       \* the extractor's input, output and position
    num_gpus,                   \* main.py: torch.cuda.device_count()
    has_batch_size,             \* main.py: config.py defines BATCH_SIZE
    mpc,                        \* main.py: where the script is
    report,                     \* main.py: what the script has reported
    exit_status,                \* main.py: the exit status of the script
    dispatched,                 \* main.py: the number of chunks given to the pool
    c_in, c_out, cpc,           \* one conversion on its own: input, results, position
    personas_to_process_tuples, \* main.py: the ids the generation stage has left
    batch_size,                 \* main.py: BATCH_SIZE
    chunked_data_with_indices,  \* main.py: the chunk of each GPU
    gpu,                        \* main.py: [GPU -> its worker_process call]
    writes,                     \* main.py: the files written, each with the GPU of its writer
    h_startMain, h_startLedger, \* history: the stores when the run started
    h_dirty,                    \* history: ids whose artifact changed since then
    h_last,                     \* history: "none", "running", "complete", "killed"
    h_commit,                   \* history: the outcome of the run's commit
    h_chain,                    \* history: the previous run completed, inputs unchanged
    h_prevCommit,               \* history: the outcome of the previous run's commit
    h_restart,                  \* history: this run restarts a killed one, inputs unchanged
    h_expected,                 \* history: what the killed run would have produced
    h_genStatus,                \* history: the status of the last generation result per id
    h_genOut,                   \* history: the generator output that result came from
    h_order                     \* history: the ids of the run's tasks as they completed

durable == <<artifacts, errFiles, mainFile, tmpFile, ledgerFile>>
memory == <<pc, main_rdf_graph, processed_ids, unprocessed_personas_data,
            files_to_process_now, futures, collected, newly_successful_graphs>>
counters == <<runs, edits, gens>>
extractor == <<text, extracted, epc>>
history == <<h_startMain, h_startLedger, h_dirty, h_last, h_commit, h_chain,
             h_prevCommit, h_restart, h_expected, h_genStatus, h_genOut, h_order>>
orchestrator == <<num_gpus, has_batch_size, mpc, report, exit_status, dispatched>>
conversion == <<c_in, c_out, cpc>>
pool == <<personas_to_process_tuples, batch_size, chunked_data_with_indices, gpu, writes>>
vars == <<durable, memory, counters, extractor, orchestrator, conversion, pool, history>>

Pending == [state |-> "pending", raised |-> FALSE, status |-> "", g |-> {}]
NoFutures == [i \in {} |-> Pending]

\* The in-memory state of a process that is not running.
MemoryCleared ==
    /\ main_rdf_graph' = {}
    /\ processed_ids' = {}
    /\ unprocessed_personas_data' = EmptyLedger
    /\ collected' = 0
    /\ newly_successful_graphs' = <<>>
    /\ files_to_process_now' = <<>>
    /\ futures' = NoFutures

\* ------------------------------------------------------ the collect loop
\* The ledger entry written when future.result() raises (line 354).
CriticalEntry(id, e) ==
    << <<"critical_unhandled_error", StrV(e)>>,
       <<"original_filepath", StrV(PathOf(id))>>,
       <<"processing_status", StrV("unhandled_exception_in_main_thread")>> >>

\* The ledger entry written when the failed artifact cannot be reloaded (line 349).
ReloadErrorEntry(id, status) ==
    << <<"error_reloading_original_json", StrV("File not found or corrupted during failure handling.")>>,
       <<"original_filepath", StrV(PathOf(id))>>,
       <<"processing_status", StrV(status)>> >>

\* A variant of CollectLedger that drops the entry of an id that fails with the
\* status the ledger already records.
CollectLedgerForgets(ledger, id, res, file) ==
    LET key == IdStr(id) IN
    IF res.raised THEN LedgerPut(ledger, key, CriticalEntry(id, res.status))
    ELSE IF res.status = "success"
    THEN (IF key \in DOMAIN ledger THEN LedgerDel(ledger, key) ELSE ledger)
    ELSE LET failed_persona_data == load_json_file(file) IN
         IF ~failed_persona_data.none
         THEN IF key \notin DOMAIN ledger
                 \/ DictGet(ledger[key], "processing_status") # StrV(res.status)
              THEN LedgerPut(ledger, key,
                             DictSet(failed_persona_data.data, "processing_status",
                                     StrV(res.status)))
              ELSE LedgerDel(ledger, key)
         ELSE LedgerPut(ledger, key, ReloadErrorEntry(id, res.status))

\* Lines 332-354 on the in-memory ledger: what one iteration of the collect loop
\* does with the result res of the task of id; file is the artifact as the loop
\* reloads it.
CollectLedger(ledger, id, res, file) ==
    LET key == IdStr(id) IN
    IF res.raised THEN LedgerPut(ledger, key, CriticalEntry(id, res.status))
    ELSE IF res.status = "success"
    THEN (IF key \in DOMAIN ledger THEN LedgerDel(ledger, key) ELSE ledger)
    ELSE LET failed_persona_data == load_json_file(file) IN
         IF ~failed_persona_data.none
         THEN IF key \notin DOMAIN ledger
                 \/ DictGet(ledger[key], "processing_status") # StrV(res.status)
              THEN LedgerPut(ledger, key,
                             DictSet(failed_persona_data.data, "processing_status",
                                     StrV(res.status)))
              ELSE ledger
         ELSE LedgerPut(ledger, key, ReloadErrorEntry(id, res.status))

\* Lines 336-337: a successful graph joins newly_successful_graphs.
CollectGraphs(graphs, res) ==
    IF ~res.raised /\ res.status = "success" THEN Append(graphs, res.g) ELSE graphs

\* A variant of Candidates that does not exclude the ids of the main store.
CandidatesAll(arts, processed) == {id \in Ids : arts[id].kind # "absent"}

\* Lines 286-309: the ids of the persona_*.json files that are not in the main
\* store.
Candidates(arts, processed) ==
    {id \in Ids : arts[id].kind # "absent" /\ id \notin processed}

\* ------------------------------------------- one run without interruption
RECURSIVE RunLedger(_, _, _)
RunLedger(ledger, ids, arts) ==
    IF ids = <<>> THEN ledger
    ELSE RunLedger(CollectLedger(ledger, Head(ids),
                                 convert_and_get_result_wrapper(Head(ids), arts[Head(ids)]),
                                 arts[Head(ids)]),
                   Tail(ids), arts)

RECURSIVE RunGraphs(_, _)
RunGraphs(ids, arts) ==
    IF ids = <<>> THEN <<>>
    ELSE LET res == convert_and_get_result_wrapper(Head(ids), arts[Head(ids)])
         IN  (IF res.status = "success" /\ ~res.raised THEN <<res.g>> ELSE <<>>)
             \o RunGraphs(Tail(ids), arts)

\* process_all_personas run from start to end on unchanging artifacts, with a
\* commit that does not fail: the stores it leaves.
UninterruptedRun(main, ledger, arts) ==
    LET todo == SortedIds(Candidates(arts, load_processed_persona_ids_from_rdf(main)))
        graph == LoadMainGraph(main)
        new == RunGraphs(todo, arts)
    IN  IF todo = <<>> THEN [main |-> main, ledger |-> ledger]
        ELSE [main |-> IF new = <<>> THEN main ELSE TurtleFile(graph \cup GraphUnion(new)),
              ledger |-> LedgerJson(RunLedger(load_unprocessed_personas_data(ledger), todo, arts))]

\* ---------------------------------------------------------------- Init
ExtractorIdle == text = <<>> /\ extracted = <<>> /\ epc = "off"

\* No conversion is run on its own.
ConversionOff == c_in = <<>> /\ c_out = <<>> /\ cpc = "off"

\* No generation worker is running.
PoolOff ==
    /\ personas_to_process_tuples = <<>> /\ batch_size = 1
    /\ chunked_data_with_indices = <<>> /\ gpu = <<>> /\ writes = {}

\* main.py is not running.
OrchestratorOff ==
    /\ num_gpus = 0 /\ has_batch_size = FALSE /\ mpc = "off"
    /\ report = "" /\ exit_status = 0 /\ dispatched = 0
    /\ PoolOff

InitStores ==
    /\ errFiles = [id \in Ids |-> "none"]
    /\ mainFile = NoFile
    /\ tmpFile = NoTmp
    /\ ledgerFile = NoLedgerFile
    /\ pc = "idle"
    /\ main_rdf_graph = {}
    /\ processed_ids = {}
    /\ unprocessed_personas_data = EmptyLedger
    /\ files_to_process_now = <<>>
    /\ futures = NoFutures
    /\ collected = 0
    /\ newly_successful_graphs = <<>>
    /\ runs = 0 /\ edits = 0 /\ gens = 0
    /\ h_startMain = NoFile
    /\ h_startLedger = NoLedgerFile
    /\ h_dirty = {}
    /\ h_last = "none"
    /\ h_commit = "none"
    /\ h_chain = FALSE
    /\ h_prevCommit = "none"
    /\ h_restart = FALSE
    /\ h_expected = [main |-> NoFile, ledger |-> NoLedgerFile]
    /\ h_genStatus = [id \in Ids |-> "none"]
    /\ h_genOut = [id \in Ids |-> <<>>]
    /\ h_order = <<>>

\* Before the first run: empty stores, and any artifacts in the input directory.
Init ==
    /\ artifacts \in [Ids -> Contents \cup {Absent}]
    /\ InitStores
    /\ ExtractorIdle
    /\ OrchestratorOff
    /\ ConversionOff

\* ------------------------------------------------- process_all_personas
\* What the history records when a run starts.
DiscoverHistory ==
    /\ h_startMain' = mainFile
    /\ h_startLedger' = ledgerFile
    /\ h_chain' = (h_last = "complete" /\ h_dirty = {})
    /\ h_prevCommit' = h_commit
    /\ h_commit' = "none"
    /\ h_dirty' = {}
    /\ h_restart' = (h_last = "killed" /\ h_dirty = {})
    /\ h_expected' = (IF h_restart' THEN h_expected
                      ELSE UninterruptedRun(mainFile, ledgerFile, artifacts))
    /\ h_order' = <<>>

\* Lines 266-329: load the stores, list the artifacts, keep the candidates and
\* submit one task per candidate; return at once when there is no artifact or
\* no candidate.
Discover ==
    /\ pc = "idle"
    /\ runs < MaxRuns
    /\ runs' = runs + 1
    /\ LET processed == load_processed_persona_ids_from_rdf(mainFile)
           todo == SortedIds(Candidates(artifacts, processed))
       IN  IF todo = <<>>
           THEN /\ pc' = "delete"
                /\ MemoryCleared
                /\ h_last' = "complete"
           ELSE /\ pc' = "workers"
                /\ main_rdf_graph' = LoadMainGraph(mainFile)
                /\ processed_ids' = processed
                /\ unprocessed_personas_data' = load_unprocessed_personas_data(ledgerFile)
                /\ files_to_process_now' = todo
                /\ futures' = [id \in Candidates(artifacts, processed) |-> Pending]
                /\ collected' = 0
                /\ newly_successful_graphs' = <<>>
                /\ h_last' = "running"
    /\ DiscoverHistory
    /\ UNCHANGED <<durable, edits, gens, extractor, orchestrator, conversion, pool, h_genStatus, h_genOut>>

\* One task of the process pool: convert_and_get_result_wrapper on the artifact
\* as it is when the task runs.
WorkerTask(id) ==
    /\ pc = "workers"
    /\ id \in DOMAIN futures
    /\ futures[id].state = "pending"
    /\ futures' = [futures EXCEPT ![id] = convert_and_get_result_wrapper(id, artifacts[id])]
    /\ h_order' = Append(h_order, id)
    /\ UNCHANGED <<durable, pc, main_rdf_graph, processed_ids, unprocessed_personas_data,
                   files_to_process_now, collected, newly_successful_graphs, counters,
                   extractor, orchestrator, conversion, pool, h_startMain, h_startLedger,
                   h_dirty, h_last, h_commit, h_chain, h_prevCommit, h_restart, h_expected,
                   h_genStatus, h_genOut>>

\* A variant of Collect that does not wait: a task that has not completed when
\* the loop comes to it is passed over.
CollectWithoutWaiting ==
    /\ pc = "workers"
    /\ collected < Len(files_to_process_now)
    /\ LET id == files_to_process_now[collected + 1] IN
       IF futures[id].state = "done"
       THEN /\ unprocessed_personas_data' =
                   CollectLedger(unprocessed_personas_data, id, futures[id], artifacts[id])
            /\ newly_successful_graphs' = CollectGraphs(newly_successful_graphs, futures[id])
       ELSE UNCHANGED <<unprocessed_personas_data, newly_successful_graphs>>
    /\ collected' = collected + 1
    /\ UNCHANGED <<durable, pc, main_rdf_graph, processed_ids, files_to_process_now,
                   futures, counters, extractor, orchestrator, conversion, pool, history>>

\* Lines 331-354: the loop takes the futures in submission order and waits for
\* each one's result.
Collect ==
    /\ pc = "workers"
    /\ collected < Len(files_to_process_now)
    /\ LET id == files_to_process_now[collected + 1] IN
       /\ futures[id].state = "done"
       /\ unprocessed_personas_data' =
              CollectLedger(unprocessed_personas_data, id, futures[id], artifacts[id])
       /\ newly_successful_graphs' = CollectGraphs(newly_successful_graphs, futures[id])
    /\ collected' = collected + 1
    /\ UNCHANGED <<durable, pc, main_rdf_graph, processed_ids, files_to_process_now,
                   futures, counters, extractor, orchestrator, conversion, pool, history>>

\* Line 258: what a failing main_graph.serialize may leave at the temporary
\* path: the file as it was, a partly written one, or none.
FailedSerialize(tmp) == {tmp, PartialTmp, NoTmp}

\* append_graphs_to_main_rdf, lines 249-258: nothing to do without new graphs;
\* otherwise merge them into the in-memory graph and serialize it to the
\* temporary path.
CommitSerialize ==
    /\ pc = "workers"
    /\ collected = Len(files_to_process_now)
    /\ IF newly_successful_graphs = <<>>
       THEN /\ pc' = "save"
            /\ UNCHANGED <<main_rdf_graph, tmpFile, h_commit>>
       ELSE /\ main_rdf_graph' = main_rdf_graph \cup GraphUnion(newly_successful_graphs)
            /\ \E ok \in BOOLEAN :
                 IF ok
                 THEN /\ tmpFile' = CompleteTmp(main_rdf_graph')
                      /\ pc' = "replace"
                      /\ UNCHANGED h_commit
                 ELSE /\ tmpFile' \in FailedSerialize(tmpFile)
                      /\ pc' = "cleanup"
                      /\ h_commit' = "serialize_failed"
    /\ UNCHANGED <<artifacts, errFiles, mainFile, ledgerFile, processed_ids,
                   unprocessed_personas_data, files_to_process_now, futures, collected,
                   newly_successful_graphs, counters, extractor, orchestrator, conversion, pool, h_startMain,
                   h_startLedger, h_dirty, h_last, h_chain, h_prevCommit, h_restart,
                   h_expected, h_genStatus, h_genOut, h_order>>

\* Line 259: os.replace(temp_path, main_rdf_filepath) puts the temporary file
\* in the place of the main store.
Replaced(tmp) == TurtleFile(tmp.g)

CommitReplace ==
    /\ pc = "replace"
    /\ \E ok \in BOOLEAN :
         IF ok
         THEN /\ mainFile' = Replaced(tmpFile)
              /\ tmpFile' = NoTmp
              /\ pc' = "save"
              /\ h_commit' = "ok"
         ELSE /\ pc' = "cleanup"
              /\ h_commit' = "replace_failed"
              /\ UNCHANGED <<mainFile, tmpFile>>
    /\ UNCHANGED <<artifacts, errFiles, ledgerFile, main_rdf_graph, processed_ids,
                   unprocessed_personas_data, files_to_process_now, futures, collected,
                   newly_successful_graphs, counters, extractor, orchestrator, conversion, pool, h_startMain,
                   h_startLedger, h_dirty, h_last, h_chain, h_prevCommit, h_restart,
                   h_expected, h_genStatus, h_genOut, h_order>>

\* A variant of RemoveTmp that leaves the temporary file where it is.
KeepTmp(tmp) == tmp

\* Lines 261-264: the except branch removes the temporary file if it exists.
RemoveTmp(tmp) == IF tmp.state # "absent" THEN NoTmp ELSE tmp

CommitCleanup ==
    /\ pc = "cleanup"
    /\ tmpFile' = RemoveTmp(tmpFile)
    /\ pc' = "save"
    /\ UNCHANGED <<artifacts, errFiles, mainFile, ledgerFile, main_rdf_graph, processed_ids,
                   unprocessed_personas_data, files_to_process_now, futures, collected,
                   newly_successful_graphs, counters, extractor, orchestrator, conversion, pool, history>>

\* save_json_file, line 85: open(filepath, 'w') truncates the ledger file.
SaveOpen ==
    /\ pc = "save"
    /\ ledgerFile' = [kind |-> "empty", d |-> EmptyLedger]
    /\ pc' = "write"
    /\ UNCHANGED <<artifacts, errFiles, mainFile, tmpFile, main_rdf_graph, processed_ids,
                   unprocessed_personas_data, files_to_process_now, futures, collected,
                   newly_successful_graphs, counters, extractor, orchestrator, conversion, pool, history>>

\* save_json_file, line 86: json.dump writes the in-memory ledger; the run ends
\* (lines 359-373 only read and print) and the script goes on to the deletion.
SaveWrite ==
    /\ pc = "write"
    /\ ledgerFile' = LedgerJson(unprocessed_personas_data)
    /\ pc' = "delete"
    /\ MemoryCleared
    /\ h_last' = "complete"
    /\ UNCHANGED <<artifacts, errFiles, mainFile, tmpFile, counters, extractor, orchestrator, conversion, pool,
                   h_startMain, h_startLedger, h_dirty, h_commit, h_chain, h_prevCommit,
                   h_restart, h_expected, h_genStatus, h_genOut, h_order>>

\* The process is killed: its memory is gone, the files stay as they are.  A
\* kill after process_all_personas has returned only skips the deletion.
Kill ==
    /\ pc # "idle"
    /\ pc' = "idle"
    /\ MemoryCleared
    /\ h_last' = (IF pc = "delete" THEN h_last ELSE "killed")
    /\ UNCHANGED <<durable, counters, extractor, orchestrator, conversion, pool, h_startMain, h_startLedger, h_dirty,
                   h_commit, h_chain, h_prevCommit, h_restart, h_expected, h_genStatus, h_genOut, h_order>>

\* DELETE_UNPROCESSED_JSONS: the script calls delete_unprocessed_source_jsons
\* after process_all_personas.
DELETE_UNPROCESSED_JSONS == TRUE

\* A variant of delete_unprocessed_source_jsons that removes every source
\* artifact.
delete_all_source_jsons ==
    /\ pc = "delete"
    /\ pc' = "idle"
    /\ artifacts' = [id \in Ids |-> Absent]
    /\ UNCHANGED <<errFiles, mainFile, tmpFile, ledgerFile, main_rdf_graph, processed_ids,
                   unprocessed_personas_data, files_to_process_now, futures, collected,
                   newly_successful_graphs, counters, extractor, orchestrator, conversion, pool,
                   history>>

\* delete_unprocessed_source_jsons: remove persona_<key>.json for every key of
\* the ledger file.
delete_unprocessed_source_jsons ==
    /\ pc = "delete"
    /\ pc' = "idle"
    /\ LET keys == IF DELETE_UNPROCESSED_JSONS
                   THEN DOMAIN load_unprocessed_personas_data(ledgerFile) ELSE {}
           gone == {id \in Ids : IdStr(id) \in keys /\ artifacts[id].kind # "absent"}
       IN  artifacts' = [id \in Ids |-> IF id \in gone THEN Absent ELSE artifacts[id]]
    /\ UNCHANGED <<errFiles, mainFile, tmpFile, ledgerFile, main_rdf_graph, processed_ids,
                   unprocessed_personas_data, files_to_process_now, futures, collected,
                   newly_successful_graphs, counters, extractor, orchestrator, conversion, pool, history>>

\* The environment rewrites or removes a source artifact, before a run or while
\* its tasks and its collect loop are reading the artifacts.
MutateArtifact(id, file) ==
    /\ pc \in {"idle", "workers"}
    /\ edits < MaxEdits
    /\ file # artifacts[id]
    /\ edits' = edits + 1
    /\ artifacts' = [artifacts EXCEPT ![id] = file]
    /\ h_dirty' = h_dirty \cup {id}
    /\ UNCHANGED <<errFiles, mainFile, tmpFile, ledgerFile, memory, runs, gens, extractor, orchestrator, conversion, pool,
                   h_startMain, h_startLedger, h_last, h_commit, h_chain,
                   h_prevCommit, h_restart, h_expected, h_genStatus, h_genOut, h_order>>

\* ------------------------------------------------------- the generation
\* worker_process on one persona of its chunk (lines 70-134), and what
\* main_multi_gpu does with the result (lines 216-222: nothing).  out is what
\* the generator returned for the persona's prompt.
GenStatus(out) ==
    IF out = OOM THEN "cuda_oom_error"
    ELSE IF JsonLoads(extract_json_from_output(out)).ok THEN "success"
    ELSE "json_error"

\* json.dump(parsed_json, f) into persona_<id>.json.
SuccessArtifact(out) ==
    LET value == JsonLoads(extract_json_from_output(out)).value
    IN  IF value.t = "obj" THEN JsonDict(ObjData(value.r)) ELSE JsonOther

worker_process(id, out) ==
    /\ pc = "idle"
    /\ gens < MaxGens
    /\ gens' = gens + 1
    /\ LET status == GenStatus(out) IN
       /\ artifacts' = (IF status = "success"
                        THEN [artifacts EXCEPT ![id] = SuccessArtifact(out)]
                        ELSE artifacts)
       /\ errFiles' = (IF status = "success" THEN errFiles
                       ELSE [errFiles EXCEPT ![id] = status])
       /\ h_genStatus' = [h_genStatus EXCEPT ![id] = status]
       /\ h_genOut' = [h_genOut EXCEPT ![id] = out]
       /\ h_dirty' = (IF artifacts' # artifacts THEN h_dirty \cup {id} ELSE h_dirty)
    /\ h_last' = "none"
    /\ UNCHANGED <<mainFile, tmpFile, ledgerFile, memory, runs, edits, extractor, orchestrator, conversion, pool,
                   h_startMain, h_startLedger, h_commit, h_chain,
                   h_prevCommit, h_restart, h_expected, h_order>>

\* ------------------------------------------------------------------ Spec
\* The conversion pipeline in its environment.
Next ==
    \/ Discover
    \/ \E id \in Ids : WorkerTask(id)
    \/ Collect
    \/ CommitSerialize
    \/ CommitReplace
    \/ CommitCleanup
    \/ SaveOpen
    \/ SaveWrite
    \/ Kill
    \/ delete_unprocessed_source_jsons
    \/ \E id \in Ids : \E file \in Contents \cup {Absent} : MutateArtifact(id, file)

Spec == Init /\ [][Next]_vars

\* Generation followed by conversion, from an empty results directory.
InitGen ==
    /\ artifacts = [id \in Ids |-> Absent]
    /\ InitStores
    /\ ExtractorIdle
    /\ OrchestratorOff
    /\ ConversionOff

NextGen ==
    \/ \E id \in Ids : \E out \in GenOutputs : worker_process(id, out)
    \/ Discover
    \/ \E id \in Ids : WorkerTask(id)
    \/ Collect
    \/ CommitSerialize
    \/ CommitReplace
    \/ CommitCleanup
    \/ SaveOpen
    \/ SaveWrite
    \/ delete_unprocessed_source_jsons

SpecGen == InitGen /\ [][NextGen]_vars

\* The extractor on its own: every text of at most MaxLen tokens, among them
\* two complete objects of ExpectedFields keys and one of fewer.
ExtractTokens ==
    {Prose, Fence, Close, Cut, Arr, RBrace,
     Obj(ExpectedFields, "a"), Obj(ExpectedFields, "b"), Obj(ExpectedFields - 1, "c")}

Texts == UNION {[1..k -> ExtractTokens] : k \in 0..MaxLen}

InitExtract ==
    /\ artifacts = [id \in Ids |-> Absent]
    /\ InitStores
    /\ text \in Texts
    /\ extracted = <<>>
    /\ epc = "ready"
    /\ OrchestratorOff
    /\ ConversionOff

Extract ==
    /\ epc = "ready"
    /\ extracted' = extract_json_from_output(text)
    /\ epc' = "done"
    /\ UNCHANGED <<durable, memory, counters, text, orchestrator, conversion, pool, history>>

NextExtract == Extract

SpecExtract == InitExtract /\ [][NextExtract]_vars

\* ============================================================ properties
\* process_all_personas has returned and no other run has started.
RunComplete == pc \in {"delete", "idle"} /\ h_last = "complete"

\* The run's commit raised inside append_graphs_to_main_rdf.
CommitFailed == h_commit \in {"serialize_failed", "replace_failed"}

\* The ids of the persona graph of a main store file, and the ids and the
\* recorded statuses of a ledger file.
InMain(file, id) == StatementsOf(file.g, id) # {}
InLedger(file, id) == IdStr(id) \in DOMAIN load_unprocessed_personas_data(file)
StatusIn(file, id) ==
    DictGet(load_unprocessed_personas_data(file)[IdStr(id)], "processing_status")

\* A record with an integer- or float-typed schema field that int() or float()
\* rejects.
NumericFails(file) ==
    /\ file.kind = "json" /\ file.root = "dict"
    /\ \E i \in 1..Len(file.data) :
         LET key == file.data[i][1]
             value == file.data[i][2]
         IN  /\ key \in FieldKeys
             /\ value.k # "null"
             /\ \/ FieldDef(key).type = "integer" /\ py_int(value).exc # "none"
                \/ FieldDef(key).type = "float" /\ py_float(value).exc # "none"

\* A non-empty record whose numeric fields all coerce.
ValidRecord(file) ==
    /\ file.kind = "json" /\ file.root = "dict"
    /\ file.data # <<>>
    /\ ~NumericFails(file)

\* The persona was processed by the run that has just ended: it was a candidate
\* at the start and its artifact has not changed since.
ProcessedInRun(id) ==
    /\ RunComplete
    /\ artifacts[id].kind # "absent"
    /\ ~InMain(h_startMain, id)
    /\ id \notin h_dirty

\* ---- C1
\* C1: an id that is in the main store when a run starts gets no conversion
\* task in that run and its statements in the main store stay as they were,
\* whatever its source artifact holds.
C1_NoDuplication ==
    \A id \in Ids :
        InMain(h_startMain, id) =>
            /\ id \notin DOMAIN futures
            /\ StatementsOf(mainFile.g, id) = StatementsOf(h_startMain.g, id)

\* A run has collected its tasks while an id of the main store has an artifact
\* that now converts to other statements than the stored ones.
C1_Witness ==
    /\ pc = "save"
    /\ DOMAIN futures # {}
    /\ \E id \in Ids :
         /\ InMain(h_startMain, id)
         /\ ValidRecord(artifacts[id])
         /\ convert_and_get_result_wrapper(id, artifacts[id]).g
                # StatementsOf(h_startMain.g, id)

\* ---- C2
\* C2 as stated: after a run, a processed persona with a numeric field that
\* fails coercion has no statement in the main store and a ledger entry whose
\* status is conversion_warning.
C2_AllOrNothing ==
    \A id \in Ids :
        (ProcessedInRun(id) /\ NumericFails(artifacts[id])) =>
            /\ ~InMain(mainFile, id)
            /\ InLedger(ledgerFile, id)
            /\ StatusIn(ledgerFile, id) = StrV("conversion_warning")

GenerationFailed(id) == h_genStatus[id] \in {"cuda_oom_error", "json_error"}
ConversionFailed(id) ==
    /\ ProcessedInRun(id)
    /\ convert_and_get_result_wrapper(id, artifacts[id]).status # "success"

\* C4 as stated: after a run, every item that failed at generation or at
\* conversion has a ledger entry with its failure status and no statement in
\* the main store.
C4_FailuresInLedger ==
    RunComplete =>
        \A id \in Ids :
            /\ (GenerationFailed(id) /\ artifacts[id].kind = "absent") =>
                   /\ InLedger(ledgerFile, id)
                   /\ StatusIn(ledgerFile, id) = StrV(h_genStatus[id])
                   /\ ~InMain(mainFile, id)
            /\ ConversionFailed(id) =>
                   /\ InLedger(ledgerFile, id)
                   /\ StatusIn(ledgerFile, id)
                        = StrV(convert_and_get_result_wrapper(id, artifacts[id]).status)
                   /\ ~InMain(mainFile, id)

\* ---- C5
\* The id was in the ledger and not in the main store when the run started,
\* and the run processed its artifact, a valid record.
C5_Pre(id) ==
    /\ ProcessedInRun(id)
    /\ InLedger(h_startLedger, id)
    /\ ValidRecord(artifacts[id])

C6_MainXorLedger ==
    RunComplete => \A id \in Ids : ~(InMain(mainFile, id) /\ InLedger(ledgerFile, id))

\* ---- C7
\* C7 as stated: a completed restart of a killed run, over the same artifacts
\* and with a commit that does not fail, ends with the main store and the ledger
\* of one uninterrupted run.
C7_RestartEqualsUninterrupted ==
    (RunComplete /\ h_restart /\ h_dirty = {} /\ ~CommitFailed) =>
        /\ LoadMainGraph(mainFile) = LoadMainGraph(h_expected.main)
        /\ load_unprocessed_personas_data(ledgerFile)
             = load_unprocessed_personas_data(h_expected.ledger)

\* ---- C8
\* C8: when the serialization of the commit has failed, the temporary file is
\* gone and the main store file is the one the run found; and the main store
\* file only ever changes to the graph of a completely serialized temporary
\* file.
C8_FailedCommitLeavesNoTrace ==
    /\ []((pc \in {"save", "write"} /\ h_commit = "serialize_failed") =>
              (tmpFile = NoTmp /\ mainFile = h_startMain))
    /\ [][mainFile' # mainFile =>
              (tmpFile.state = "complete" /\ mainFile' = TurtleFile(tmpFile.g))]_vars

\* The serialization has failed in a run that found a main store with content.
C8_Witness ==
    /\ pc = "save"
    /\ h_commit = "serialize_failed"
    /\ \E id \in Ids : InMain(h_startMain, id)

\* ---- C9
\* C9: no step removes or changes the statements of an id that is in the main
\* store.
C9_WriteOnce ==
    [][\A id \in Ids :
          InMain(mainFile, id) =>
              StatementsOf(mainFile'.g, id) = StatementsOf(mainFile.g, id)]_vars

\* A run has committed new statements to a main store that held an id.
C9_Witness ==
    /\ h_commit = "ok"
    /\ mainFile # h_startMain
    /\ \E id \in Ids : InMain(h_startMain, id)

\* ---- C10
\* The text holds exactly two complete JSON objects, exactly one of which has
\* ExpectedFields keys.
Objects(str) == {i \in 1..Len(str) : str[i].t = "obj"}
TwoObjectsOneFull(str) ==
    /\ Cardinality(Objects(str)) = 2
    /\ Cardinality({i \in Objects(str) : str[i].n = ExpectedFields}) = 1

\* C10 as stated: for such a text the extractor returns the object with
\* ExpectedFields keys, wherever it stands.
C10_SchemaCountGate ==
    (epc = "done" /\ TwoObjectsOneFull(text)) =>
        \E i \in Objects(text) :
            text[i].n = ExpectedFields /\ extracted = <<text[i]>>

\* ---- C11
\* The extractor found an accepted mapping in the generator output: what it
\* returns decodes to a dict of ExpectedFields keys.
MappingFound(out) ==
    LET p == JsonLoads(extract_json_from_output(out))
    IN  p.ok /\ Accepted(p.value)

\* C11 as stated: an item is reported success, and its artifact is written,
\* only when an accepted mapping was found in its generator output; every other
\* text gives json_error.
C11_AcceptedOnly ==
    \A id \in Ids :
        /\ h_genStatus[id] = "success" => MappingFound(h_genOut[id])
        /\ (h_genStatus[id] # "none" /\ h_genOut[id] # OOM /\ ~MappingFound(h_genOut[id]))
               => h_genStatus[id] = "json_error"

\* ---- C12
\* C12 as stated: every finished conversion task has returned a tagged result
\* (nothing was raised out of convert_and_get_result_wrapper), and the status
\* is load_error when load_json_file cannot load the artifact.
C12_NothingRaised ==
    \A id \in DOMAIN futures :
        futures[id].state = "done" =>
            /\ ~futures[id].raised
            /\ (id \notin h_dirty /\ load_json_file(artifacts[id]).none)
                   => futures[id].status = "load_error"

\* ---- C13
\* The failure statuses of the spec's taxonomy.
Taxonomy ==
    {"load_error", "conversion_warning", "conversion_error_or_empty_data",
     "json_error", "resource_exhausted", "critical_error", "unhandled_exception"}

\* The statuses of the entries of a ledger.
LedgerStatuses(d) == {py_str(DictGet(d[k], "processing_status")) : k \in DOMAIN d}

\* C13 as stated: the status of every generation result, of every conversion
\* result and of every ledger entry is success or a value of the taxonomy.
C13_StatusInTaxonomy ==
    /\ \A id \in Ids : h_genStatus[id] \in Taxonomy \cup {"none", "success"}
    /\ \A id \in DOMAIN futures :
           (futures[id].state = "done" /\ ~futures[id].raised)
               => futures[id].status \in Taxonomy \cup {"success"}
    /\ LedgerStatuses(unprocessed_personas_data) \subseteq Taxonomy
    /\ LedgerStatuses(load_unprocessed_personas_data(ledgerFile)) \subseteq Taxonomy

\* ---- C14
\* A store file whose text does not parse: load_processed_persona_ids_from_rdf
\* and the parse of the main graph catch the error, load_json_file returns None.
CorruptMain == [kind |-> "text", g |-> {}]
CorruptLedger == [kind |-> "text", d |-> EmptyLedger]

\* The environment damages a store file between two runs.
CorruptMainStore ==
    /\ pc = "idle"
    /\ edits < MaxEdits
    /\ mainFile # CorruptMain
    /\ edits' = edits + 1
    /\ mainFile' = CorruptMain
    /\ UNCHANGED <<artifacts, errFiles, tmpFile, ledgerFile, memory, runs, gens,
                   extractor, orchestrator, conversion, pool, history>>

CorruptLedgerStore ==
    /\ pc = "idle"
    /\ edits < MaxEdits
    /\ ledgerFile # CorruptLedger
    /\ edits' = edits + 1
    /\ ledgerFile' = CorruptLedger
    /\ UNCHANGED <<artifacts, errFiles, mainFile, tmpFile, memory, runs, gens,
                   extractor, orchestrator, conversion, pool, history>>

\* The conversion pipeline with store files that may be damaged.
NextCorrupt ==
    \/ Next
    \/ CorruptMainStore
    \/ CorruptLedgerStore

SpecCorrupt == Init /\ [][NextCorrupt]_vars

\* C14 as stated: a run that finds a corrupted store file treats it as empty
\* (it loads no id, no statement and no entry from it), and the file is still
\* there, as it was, during and after the run.
C14_CorruptedKept ==
    /\ (pc = "workers" /\ h_startMain = CorruptMain)
           => (processed_ids = {} /\ main_rdf_graph = {})
    /\ h_startMain = CorruptMain => mainFile = CorruptMain
    /\ h_startLedger = CorruptLedger => ledgerFile = CorruptLedger

\* ---- C15
\* ------------------------------------------------ main.py, the orchestrator
MaxGpus == 2

\* The generation script is started: the results directory holds any
\* artifacts, the machine has some number of GPUs, config.py defines
\* BATCH_SIZE or does not (the one in the repository does not).
InitMain ==
    /\ artifacts \in [Ids -> Contents \cup {Absent}]
    /\ InitStores
    /\ ExtractorIdle
    /\ num_gpus \in 0..MaxGpus
    /\ has_batch_size \in BOOLEAN
    /\ mpc = "import"
    /\ report = "" /\ exit_status = 0 /\ dispatched = 0
    /\ PoolOff
    /\ ConversionOff

\* Lines 8-18: from config import (..., BATCH_SIZE); an ImportError ends the
\* script with a traceback and status 1.
ScriptImport ==
    /\ mpc = "import"
    /\ IF has_batch_size
       THEN mpc' = "main" /\ UNCHANGED <<report, exit_status>>
       ELSE mpc' = "exited" /\ report' = "ImportError" /\ exit_status' = 1
    /\ UNCHANGED <<durable, memory, counters, extractor, conversion, pool, num_gpus, has_batch_size,
                   dispatched, history>>

\* main_multi_gpu, lines 151-160: with no GPU it prints and returns, and the
\* script ends after the call (lines 237-238) with status 0.
CountGpus ==
    /\ mpc = "main"
    /\ IF num_gpus = 0
       THEN mpc' = "exited" /\ report' = "No GPUs found" /\ exit_status' = 0
       ELSE mpc' = "load" /\ UNCHANGED <<report, exit_status>>
    /\ UNCHANGED <<durable, memory, counters, extractor, conversion, pool, num_gpus, has_batch_size,
                   dispatched, history>>

\* main_multi_gpu, lines 163-177: get_processed_persona_ids(RESULTS_DIR) lacks
\* the second positional argument of the function (utils.py:47-49): TypeError.
LoadProgress ==
    /\ mpc = "load"
    /\ mpc' = "exited" /\ report' = "TypeError" /\ exit_status' = 1
    /\ UNCHANGED <<durable, memory, counters, extractor, conversion, pool, num_gpus, has_batch_size,
                   dispatched, history>>

NextMain ==
    \/ ScriptImport
    \/ CountGpus
    \/ LoadProgress

SpecMain == InitMain /\ [][NextMain]_vars

\* C15 as stated, for a script whose imports succeed: with zero GPUs the script
\* ends having dispatched nothing, having reported that no GPU was found, with
\* a non-zero exit status.
C15_NoGpuIsFatal ==
    (mpc = "exited" /\ num_gpus = 0 /\ has_batch_size) =>
        (dispatched = 0 /\ report = "No GPUs found" /\ exit_status # 0)

\* ---- C16
\* Every source artifact there is belongs to an id that was in the main store
\* when the run started, and no artifact has changed since.
NoCandidates ==
    /\ h_dirty = {}
    /\ \A id \in Ids : artifacts[id].kind = "absent" \/ InMain(h_startMain, id)

\* C16: a run that starts with no candidate goes straight to its end: it
\* submits no task, and it leaves the main store file and the ledger file as
\* they were, in every run of a sequence.
C16_NoCandidatesNoChange ==
    (runs > 0 /\ pc # "idle" /\ NoCandidates) =>
        /\ pc = "delete" /\ h_last = "complete"
        /\ mainFile = h_startMain /\ ledgerFile = h_startLedger

\* A third run has ended at once: the artifact of an id of the main store is
\* still there and the ledger has an entry.
C16_Witness ==
    /\ runs > 2 /\ pc = "delete" /\ NoCandidates
    /\ \E id \in Ids : InMain(h_startMain, id) /\ artifacts[id].kind # "absent"
    /\ \E id \in Ids : InLedger(ledgerFile, id)

\* ------------------------------------------- one conversion on its own
MaxFields == 2

\* Fields a record may hold: values that coerce and values that do not, a list,
\* the nested scores with a null score, a null.
FieldPairs ==
    { <<"age", IntV("32")>>, <<"age", StrV("thirty-two")>>, <<"age", FloatV("inf")>>,
      <<"age", NullV>>, <<"race", StrV("Latino")>>,
      <<"income", FloatV("52000.5")>>, <<"income", StrV("n/a")>>,
      <<"household language", ListV(<<"English", "Spanish">>)>>,
      <<"big five scores", DictV(<<"Openness", "High", " Agreeableness", NullScore>>)>> }

\* Keys that are not in FIELD_DEFINITIONS: a new name, a known name in another
\* case, a known name with a leading blank.
UnknownPairs ==
    { <<"nickname", StrV("Lat")>>, <<"Age", IntV("32")>>, <<" race", StrV("Latino")>> }

\* The dicts json.load can yield from the pairs: no key twice.
DistinctKeys(d) == \A i, j \in 1..Len(d) : d[i][1] = d[j][1] => i = j
DictsOver(pairs, n) ==
    {d \in UNION {[1..k -> pairs] : k \in 0..n} : DistinctKeys(d)}

Records == DictsOver(FieldPairs, MaxFields)
Extras == DictsOver(UnknownPairs, MaxFields) \ {<<>>}

\* The record with the unknown keys added, before or after its own keys.
WithExtra(file, extra, front) ==
    IF file.kind = "json" /\ file.root = "dict"
    THEN JsonDict(IF front THEN extra \o file.data ELSE file.data \o extra)
    ELSE file

NotBuilt == [g |-> {}, warn |-> FALSE, exc |-> "none"]

InitConvert ==
    /\ artifacts = [id \in Ids |-> Absent]
    /\ InitStores
    /\ ExtractorIdle
    /\ OrchestratorOff
    /\ c_in \in [id : Ids, file : {JsonDict(r) : r \in Records} \cup {JsonOther, Garbage},
                 extra : Extras, front : BOOLEAN]
    /\ c_out = [built |-> NotBuilt, res |-> Pending, resx |-> Pending]
    /\ cpc = "ready"

\* convert_and_get_result_wrapper on the file; built is the graph and the flag
\* the field loop of convert_persona_json_to_rdf_graph has when it ends.
ConvertPlain ==
    /\ cpc = "ready"
    /\ cpc' = "plain"
    /\ LET l == load_json_file(c_in.file) IN
       c_out' = [c_out EXCEPT
                   !.res = convert_and_get_result_wrapper(c_in.id, c_in.file),
                   !.built = IF l.none \/ l.data = <<>> THEN NotBuilt
                             ELSE BuiltGraph(c_in.id, l.data)]
    /\ UNCHANGED <<durable, memory, counters, extractor, orchestrator, pool, c_in, history>>

\* convert_and_get_result_wrapper on the file with the unknown keys added.
ConvertExtended ==
    /\ cpc = "plain"
    /\ cpc' = "done"
    /\ c_out' = [c_out EXCEPT
                   !.resx = convert_and_get_result_wrapper(
                                c_in.id, WithExtra(c_in.file, c_in.extra, c_in.front))]
    /\ UNCHANGED <<durable, memory, counters, extractor, orchestrator, pool, c_in, history>>

NextConvert ==
    \/ ConvertPlain
    \/ ConvertExtended

SpecConvert == InitConvert /\ [][NextConvert]_vars

\* ---- C17
\* C17 as stated: for every record, the conversion of the record with unknown
\* keys added raises nothing and has the status and the statements of the
\* conversion of the record itself.
C17_UnknownKeysIgnored ==
    (cpc = "done" /\ c_in.file.root = "dict") =>
        /\ ~c_out.resx.raised
        /\ c_out.resx.status = c_out.res.status
        /\ c_out.resx.g = c_out.res.g

\* The same for the records that have at least one key.
C17_NonEmptyOnly ==
    (cpc = "done" /\ c_in.file.root = "dict" /\ c_in.file.data # <<>>) =>
        /\ ~c_out.resx.raised
        /\ c_out.resx.status = c_out.res.status
        /\ c_out.resx.g = c_out.res.g

\* ---- C18
\* The statement the field mapper is to emit for a schema field: the typed one
\* when the value coerces, the string-typed fallback when it does not.
ExpectedStatements(id, key, value) ==
    LET type == FieldDef(key).type
        pred == FieldDef(key).pred
        coerced == IF type = "integer" THEN py_int(value) ELSE py_float(value)
    IN  IF value.k = "null" \/ type = "special_nested" THEN {}
        ELSE IF type \in {"integer", "float"}
        THEN IF coerced.exc = "none"
             THEN {Triple(URIRef(id), pred, coerced.lex, type)}
             ELSE {Triple(URIRef(id), pred, py_str(value), "string")}
        ELSE IF value.k = "list"
        THEN {Triple(URIRef(id), pred, value.v[i], "string") : i \in 1..Len(value.v)}
        ELSE {Triple(URIRef(id), pred, py_str(value), "string")}

\* The field loop has ended with allFieldsOk false and a graph that holds the
\* expected statement of every schema field of the record, and the result of
\* the conversion is conversion_warning.
MappedWithWarning ==
    /\ c_out.built.exc = "none"
    /\ c_out.built.warn
    /\ \A i \in 1..Len(c_in.file.data) :
         c_in.file.data[i][1] \in FieldKeys =>
             ExpectedStatements(c_in.id, c_in.file.data[i][1], c_in.file.data[i][2])
                 \subseteq c_out.built.g
    /\ ~c_out.res.raised
    /\ c_out.res.status = "conversion_warning"

\* C18 as stated: for every record with an integer or float field that fails
\* coercion.
C18_FallbackAndWarning ==
    (cpc # "ready" /\ NumericFails(c_in.file)) => MappedWithWarning

\* The same for the records in which int() and float() fail with ValueError or
\* TypeError only.
C18_CaughtFailuresOnly ==
    (cpc # "ready" /\ NumericFails(c_in.file)
        /\ \A i \in 1..Len(c_in.file.data) :
               c_in.file.data[i][2] # FloatV("inf")) => MappedWithWarning

\* ---- C19
\* C19: a step of delete_unprocessed_source_jsons removes the source artifact
\* of every id of the ledger file, leaves the source artifact of every other
\* id as it is, and changes neither the ledger file nor the main store file.
C19_DeletesLedgerIdsOnly ==
    [][delete_unprocessed_source_jsons =>
         /\ \A id \in Ids :
              artifacts'[id] = IF InLedger(ledgerFile, id) THEN Absent ELSE artifacts[id]
         /\ ledgerFile' = ledgerFile
         /\ mainFile' = mainFile]_vars

\* After a first run and its deletion step, with no edit: the artifact of an
\* id of the ledger is gone, the artifact of an id of the main store is there.
C19_Witness ==
    /\ runs = 1 /\ edits = 0 /\ pc = "idle" /\ h_last = "complete"
    /\ \E id \in Ids : InLedger(ledgerFile, id) /\ artifacts[id].kind = "absent"
    /\ \E id \in Ids : InMain(mainFile, id) /\ artifacts[id].kind # "absent"

\* ---- C20
\* A conversion worker task of the current run that has not completed.
Running == {id \in DOMAIN futures : futures[id].state = "pending"}

\* C20: once a worker result has been collected, or the commit has begun, no
\* conversion worker task of the run is still running.
C20_CollectAfterAllWorkers ==
    (collected > 0 \/ pc \in {"replace", "cleanup", "save", "write"}) => Running = {}

\* The Commit phase alone: it begins only after all workers have completed.
C20_CommitAfterAllWorkers ==
    pc \in {"replace", "cleanup", "save", "write"} => Running = {}

\* ---- C21
\* ----------------------------- main.py, the partition and the worker calls
MaxPersonas == 3
MaxBatch == 2

\* The global ids of the dataset.
Personas == 0..(MaxPersonas - 1)

\* [[]] * num_gpus in place of the list comprehension: every chunk is the same
\* list, and holds every persona.
AliasedChunks(tuples, n) == [g \in 0..(n - 1) |-> tuples]

\* Lines 193-198: the persona at position i of the remaining ones goes to the
\* chunk of GPU i % num_gpus.
RoundRobin(tuples, n) ==
    [g \in 0..(n - 1) |->
        LET at == SortedIds({i \in 1..Len(tuples) : (i - 1) % n = g})
        IN  [k \in 1..Len(at) |-> tuples[at[k]]]]

\* A worker_process call that has done nothing yet.
Started == [state |-> "running", i |-> 0, results |-> <<>>, log |-> <<>>]

\* The texts generate_response returns in a batch: one that holds a complete
\* object, one that holds none.
BatchTexts == {<<Obj(ExpectedFields, "good1")>>, <<Prose, Cut>>}

\* What generate_response does for a batch of n prompts: it raises
\* torch.cuda.OutOfMemoryError, it raises another exception, or it returns n
\* texts.
BatchOutcomes(n) ==
    {[kind |-> "oom", outs |-> <<>>], [kind |-> "error", outs |-> <<>>]}
        \cup {[kind |-> "outputs", outs |-> o] : o \in [1..n -> BatchTexts]}

\* The file a result is written to (lines 83-86, 105-107, 116-119).
FileOf(id, status, g) ==
    CASE status = "success" -> <<"persona", id, ".json">>
      [] status = "cuda_oom_error" -> <<"persona", id, "_error_gpu", g, "_OOM.txt">>
      [] OTHER -> <<"persona", id, "_error_gpu", g, ".txt">>

\* The generation stage has its remaining personas (at least one, line 189),
\* a number of GPUs (at least one, line 156) and a batch size.
InitPool ==
    /\ artifacts = [id \in Ids |-> Absent]
    /\ InitStores
    /\ ExtractorIdle
    /\ ConversionOff
    /\ num_gpus \in 1..MaxGpus
    /\ has_batch_size = TRUE
    /\ mpc = "partition"
    /\ report = "" /\ exit_status = 0 /\ dispatched = 0
    /\ personas_to_process_tuples \in {SortedIds(S) : S \in (SUBSET Personas) \ {{}}}
    /\ batch_size \in 1..MaxBatch
    /\ chunked_data_with_indices = <<>>
    /\ gpu = <<>>
    /\ writes = {}

\* main_multi_gpu, lines 193-218: the chunks, one worker call per chunk that
\* is not empty, all given to the pool.
Dispatch ==
    /\ mpc = "partition"
    /\ mpc' = "pool"
    /\ chunked_data_with_indices' = RoundRobin(personas_to_process_tuples, num_gpus)
    /\ gpu' = [g \in {x \in 0..(num_gpus - 1) : chunked_data_with_indices'[x] # <<>>}
                 |-> Started]
    /\ dispatched' = Cardinality(DOMAIN gpu')
    /\ UNCHANGED <<durable, memory, counters, extractor, conversion, num_gpus,
                   has_batch_size, report, exit_status, personas_to_process_tuples,
                   batch_size, writes, history>>

\* Lines 138-148: the result of a call that ends in the outer except.
CriticalResults(chunk) == [k \in 1..Len(chunk) |-> <<chunk[k], "critical_error">>]

\* The except clause of lines 76-94 without its continue: the exception goes
\* on to the outer except.
OomAborts(chunk, w, batch) ==
    [w EXCEPT !.state = "returned", !.results = CriticalResults(chunk),
              !.log = Append(w.log, "oom")]

\* Lines 76-94: one cuda_oom_error result per persona of the batch, then the
\* next batch.
OomContinues(chunk, w, batch) ==
    [w EXCEPT !.i = w.i + Len(batch),
              !.state = IF w.i + Len(batch) >= Len(chunk) THEN "returned" ELSE "running",
              !.results = w.results \o [k \in 1..Len(batch) |-> <<batch[k], "cuda_oom_error">>],
              !.log = Append(w.log, "oom")]

\* worker_process, lines 67-136, one turn of the batch loop of the call on
\* GPU g (with the return after the last batch, and the outer except).
WorkerBatch(g) ==
    /\ mpc = "pool"
    /\ g \in DOMAIN gpu
    /\ gpu[g].state = "running"
    /\ LET chunk == chunked_data_with_indices[g]
           w == gpu[g]
           last == IF w.i + batch_size < Len(chunk) THEN w.i + batch_size ELSE Len(chunk)
           batch == SubSeq(chunk, w.i + 1, last)
       IN  \E outcome \in BatchOutcomes(Len(batch)) :
             CASE outcome.kind = "oom" ->
                    /\ gpu' = [gpu EXCEPT ![g] = OomContinues(chunk, w, batch)]
                    /\ writes' = writes \cup
                           {[file |-> FileOf(batch[k], "cuda_oom_error", g), by |-> g] :
                               k \in 1..Len(batch)}
               [] outcome.kind = "error" ->
                    /\ gpu' = [gpu EXCEPT ![g] =
                                 [w EXCEPT !.state = "returned",
                                           !.results = CriticalResults(chunk),
                                           !.log = Append(w.log, "error")]]
                    /\ UNCHANGED writes
               [] OTHER ->
                    /\ gpu' = [gpu EXCEPT ![g] =
                                 [w EXCEPT !.i = last,
                                           !.state = IF last >= Len(chunk) THEN "returned"
                                                     ELSE "running",
                                           !.results = w.results \o
                                               [k \in 1..Len(batch) |->
                                                   <<batch[k], GenStatus(outcome.outs[k])>>],
                                           !.log = Append(w.log, "outputs")]]
                    /\ writes' = writes \cup
                           {[file |-> FileOf(batch[k], GenStatus(outcome.outs[k]), g),
                             by |-> g] : k \in 1..Len(batch)}
    /\ UNCHANGED <<durable, memory, counters, extractor, conversion, orchestrator,
                   personas_to_process_tuples, batch_size, chunked_data_with_indices,
                   history>>

\* Lines 216-234: the pool is left when every call has returned.
PoolJoin ==
    /\ mpc = "pool"
    /\ \A g \in DOMAIN gpu : gpu[g].state = "returned"
    /\ mpc' = "exited"
    /\ report' = "All GPU workers finished"
    /\ UNCHANGED <<durable, memory, counters, extractor, conversion, pool, num_gpus,
                   has_batch_size, exit_status, dispatched, history>>

NextPool ==
    \/ Dispatch
    \/ \E g \in 0..(MaxGpus - 1) : WorkerBatch(g)
    \/ PoolJoin

SpecPool == InitPool /\ [][NextPool]_vars

\* The ids of a chunk.
ChunkIds(g) == {chunked_data_with_indices[g][k] : k \in 1..Len(chunked_data_with_indices[g])}

\* C21: once the remaining personas are partitioned, every one of them is in
\* the chunk of exactly one GPU, and in any interleaving of the worker calls
\* no file is written by the calls of two GPUs.
C21_DisjointShards ==
    mpc \in {"pool", "exited"} =>
        /\ \A i \in 1..Len(personas_to_process_tuples) :
             Cardinality({g \in 0..(num_gpus - 1) :
                 personas_to_process_tuples[i] \in ChunkIds(g)}) = 1
        /\ \A g \in 0..(num_gpus - 1) :
             Len(chunked_data_with_indices[g]) = Cardinality(ChunkIds(g))
        /\ \A a, b \in writes : a.file = b.file => a.by = b.by

\* Two worker calls have both written the artifact of a persona and returned.
C21_Witness ==
    /\ mpc = "exited"
    /\ \E a, b \in writes : a.by # b.by /\ a.file[3] = ".json" /\ b.file[3] = ".json"

\* ---- C22
\* The positions in the chunk of the personas of the k-th batch.
BatchPositions(chunk, k) ==
    {p \in 1..Len(chunk) : (k - 1) * batch_size < p /\ p <= k * batch_size}

\* The results of a call that are about a persona.
ResultsOf(w, id) == {j \in 1..Len(w.results) : w.results[j][1] = id}

\* C22: when generate_response raised the out-of-memory error for a batch,
\* every persona of that batch has exactly one result, a failure
\* (cuda_oom_error, or critical_error when a later batch ended the call in the
\* outer except), and the call did not end at that batch when later batches
\* remained.
C22_OomDegrades ==
    \A g \in DOMAIN gpu :
        LET w == gpu[g]
            chunk == chunked_data_with_indices[g]
        IN  \A k \in 1..Len(w.log) :
              w.log[k] = "oom" =>
                /\ \A p \in BatchPositions(chunk, k) :
                     /\ Cardinality(ResultsOf(w, chunk[p])) = 1
                     /\ \A j \in ResultsOf(w, chunk[p]) :
                          w.results[j][2] = IF w.log[Len(w.log)] = "error"
                                            THEN "critical_error" ELSE "cuda_oom_error"
                /\ k * batch_size < Len(chunk) =>
                     (w.state = "running" \/ Len(w.log) > k)

\* A call has returned whose first batch ran out of memory and whose second
\* batch gave a success.
C22_Witness ==
    \E g \in DOMAIN gpu :
        /\ gpu[g].state = "returned"
        /\ gpu[g].log = <<"oom", "outputs">>
        /\ gpu[g].results[1][2] = "cuda_oom_error"
        /\ gpu[g].results[Len(gpu[g].results)][2] = "success"

\* ---- C29
\* C29: a worker_process call that has returned has exactly one result per
\* persona of its chunk, and the result of a persona is a success exactly when
\* the call wrote persona_<id>.json for it.
C29_ResultsMatchArtifacts ==
    \A g \in DOMAIN gpu :
        LET w == gpu[g]
            chunk == chunked_data_with_indices[g]
        IN  w.state = "returned" =>
              /\ Len(w.results) = Len(chunk)
              /\ \A p \in 1..Len(chunk) :
                   /\ Cardinality(ResultsOf(w, chunk[p])) = 1
                   /\ \A j \in ResultsOf(w, chunk[p]) :
                        w.results[j][2] = "success" <=>
                            [file |-> FileOf(chunk[p], "success", g), by |-> g] \in writes

\* The same for the calls that did not end in the outer except.
C29_WithoutCriticalError ==
    \A g \in DOMAIN gpu :
        LET w == gpu[g]
            chunk == chunked_data_with_indices[g]
        IN  (w.state = "returned" /\ w.log[Len(w.log)] # "error") =>
              /\ Len(w.results) = Len(chunk)
              /\ \A p \in 1..Len(chunk) :
                   /\ Cardinality(ResultsOf(w, chunk[p])) = 1
                   /\ \A j \in ResultsOf(w, chunk[p]) :
                        w.results[j][2] = "success" <=>
                            [file |-> FileOf(chunk[p], "success", g), by |-> g] \in writes

\* ---- C23
\* The status the collect loop gives the result of a task.
CollectedStatus(res) ==
    IF res.raised THEN "unhandled_exception_in_main_thread" ELSE res.status

\* C23: when the collect loop handles a failed result whose status is the one
\* the ledger entry of that id already has, it leaves the entry as it is.
C23_SameStatusKept ==
    [][(pc = "workers" /\ collected' = collected + 1) =>
         LET id == files_to_process_now[collected + 1]
             key == IdStr(id)
         IN  (/\ CollectedStatus(futures[id]) # "success"
              /\ key \in DOMAIN unprocessed_personas_data
              /\ DictGet(unprocessed_personas_data[key], "processing_status")
                     = StrV(CollectedStatus(futures[id])))
             => (/\ key \in DOMAIN unprocessed_personas_data'
                 /\ unprocessed_personas_data'[key] = unprocessed_personas_data[key])]_vars

\* The same for the results whose artifact the loop can reload.
C23_SameStatusKeptWhenReloaded ==
    [][(pc = "workers" /\ collected' = collected + 1) =>
         LET id == files_to_process_now[collected + 1]
             key == IdStr(id)
         IN  (/\ CollectedStatus(futures[id]) # "success"
              /\ ~futures[id].raised
              /\ ~load_json_file(artifacts[id]).none
              /\ key \in DOMAIN unprocessed_personas_data
              /\ DictGet(unprocessed_personas_data[key], "processing_status")
                     = StrV(CollectedStatus(futures[id])))
             => (/\ key \in DOMAIN unprocessed_personas_data'
                 /\ unprocessed_personas_data'[key] = unprocessed_personas_data[key])]_vars

\* ---- C24
\* The ledger entry the collect loop writes for a failed artifact that it
\* finds as the task found it.
AttemptEntry(id, file) ==
    LET l == load_json_file(file)
        status == convert_and_get_result_wrapper(id, file).status
    IN  IF l.none THEN ReloadErrorEntry(id, status)
        ELSE DictSet(l.data, "processing_status", StrV(status))

\* C24: when a run has ended (before the deletion step), every id that was a
\* candidate of the run, whose artifact did not change during the run and
\* whose conversion failed, has in the ledger the record of that artifact (or
\* the error payload when it does not parse) with its processing_status.
C24_LedgerHoldsLastAttempt ==
    (pc = "delete" /\ h_last = "complete") =>
        \A id \in Ids :
            (/\ ProcessedInRun(id)
             /\ convert_and_get_result_wrapper(id, artifacts[id]).status # "success")
            => (/\ InLedger(ledgerFile, id)
                /\ load_unprocessed_personas_data(ledgerFile)[IdStr(id)]
                       = AttemptEntry(id, artifacts[id]))

\* The same for the ids that had no ledger entry when the run started.
C24_FirstFailure ==
    (pc = "delete" /\ h_last = "complete") =>
        \A id \in Ids :
            (/\ ProcessedInRun(id)
             /\ ~InLedger(h_startLedger, id)
             /\ convert_and_get_result_wrapper(id, artifacts[id]).status # "success")
            => (/\ InLedger(ledgerFile, id)
                /\ load_unprocessed_personas_data(ledgerFile)[IdStr(id)]
                       = AttemptEntry(id, artifacts[id]))

\* ---- C25
\* The decoded content of the file is the empty object, or is JSON whose root
\* is not an object.
EmptyRecord(file) == file.kind = "json" /\ file.root = "dict" /\ file.data = <<>>
NotAMapping(file) == file.kind = "json" /\ file.root # "dict"

\* C25: when a run has ended, every artifact it processed whose record is
\* empty or is not a mapping is in the ledger with the status
\* conversion_error_or_empty_data.
C25_EmptyOrNotMapping ==
    (pc = "delete" /\ h_last = "complete") =>
        \A id \in Ids :
            (ProcessedInRun(id) /\ (EmptyRecord(artifacts[id]) \/ NotAMapping(artifacts[id])))
            => (/\ InLedger(ledgerFile, id)
                /\ StatusIn(ledgerFile, id) = StrV("conversion_error_or_empty_data"))

\* The same for the empty record alone.
C25_EmptyOnly ==
    (pc = "delete" /\ h_last = "complete") =>
        \A id \in Ids :
            (ProcessedInRun(id) /\ EmptyRecord(artifacts[id]))
            => (/\ InLedger(ledgerFile, id)
                /\ StatusIn(ledgerFile, id) = StrV("conversion_error_or_empty_data"))

\* ---- C26
\* Both strategies of the extractor find a mapping of ExpectedFields keys in
\* the text: the fenced group decodes to one, and so does the value at the
\* first brace.
BothMatch(str) ==
    /\ FencedGroup(str).found
    /\ JsonLoads(FencedGroup(str).str).ok
    /\ Accepted(JsonLoads(FencedGroup(str).str).value)
    /\ FirstBrace(str).ok
    /\ Accepted(FirstBrace(str).value)

\* C26: for a text in which both strategies match, the extractor returns the
\* content of the fenced group.
C26_FencedFirst ==
    (epc = "done" /\ BothMatch(text)) => extracted = FencedGroup(text).str

\* The extractor has run on a text in which the two strategies match
\* different objects.
C26_Witness ==
    /\ epc = "done"
    /\ BothMatch(text)
    /\ FencedGroup(text).str # FirstBrace(text).str

\* ---- C27
\* C27: when a run has ended, after its commit and its ledger save, every id
\* the run processed is in the main store file or in the ledger file.
C27_NoWorkDropped ==
    (pc = "delete" /\ h_last = "complete") =>
        \A id \in Ids :
            ProcessedInRun(id) => (InMain(mainFile, id) \/ InLedger(ledgerFile, id))

\* The same for the runs whose commit did not fail.
C27_WhenCommitSucceeds ==
    (pc = "delete" /\ h_last = "complete" /\ ~CommitFailed) =>
        \A id \in Ids :
            ProcessedInRun(id) => (InMain(mainFile, id) \/ InLedger(ledgerFile, id))

\* ---- C28
\* C28: a run over artifacts that do not change, with a commit that does not
\* fail, ends with the main store statements and the ledger that the stores and
\* the artifacts at its start determine, in whatever order its tasks completed.
C28_OrderIndependent ==
    (pc = "delete" /\ h_last = "complete" /\ h_dirty = {} /\ ~CommitFailed) =>
        LET expected == UninterruptedRun(h_startMain, h_startLedger, artifacts)
        IN  /\ LoadMainGraph(mainFile) = LoadMainGraph(expected.main)
            /\ load_unprocessed_personas_data(ledgerFile)
                 = load_unprocessed_personas_data(expected.ledger)

\* Such a run has ended whose second task completed before its first, one of
\* them a success and the other a failure.
C28_Witness ==
    /\ pc = "delete" /\ h_last = "complete" /\ h_dirty = {} /\ ~CommitFailed
    /\ Len(h_order) = 2
    /\ h_order[1] > h_order[2]
    /\ \E id \in Ids : InMain(mainFile, id) /\ ~InMain(h_startMain, id)
    /\ \E id \in Ids : InLedger(ledgerFile, id) /\ ~InLedger(h_startLedger, id)

\* ---- C30
\* ------------------------- the stages run one after the other, repeatedly
\* The results directory holds no artifact, or some of an earlier generation
\* (a record that converts, one whose age is not a number); the stores are
\* empty, and no script is running.
InitLoop ==
    /\ artifacts \in [Ids -> {Absent, JsonDict(RecGood1), JsonDict(RecBadAge)}]
    /\ InitStores
    /\ ExtractorIdle
    /\ num_gpus \in 0..MaxGpus
    /\ has_batch_size \in BOOLEAN
    /\ mpc = "off"
    /\ report = "" /\ exit_status = 0 /\ dispatched = 0
    /\ PoolOff
    /\ ConversionOff

\* python main.py is started (lines 237-238) while converter.py is not running;
\* gens counts the starts up to MaxGens.
StartGeneration ==
    /\ pc = "idle"
    /\ mpc \in {"off", "exited"}
    /\ gens' = (IF gens < MaxGens THEN gens + 1 ELSE gens)
    /\ mpc' = "import"
    /\ report' = "" /\ exit_status' = 0
    /\ UNCHANGED <<durable, memory, runs, edits, extractor, conversion, pool, num_gpus,
                   has_batch_size, dispatched, history>>

NextLoop ==
    \/ StartGeneration
    \/ ScriptImport
    \/ CountGpus
    \/ LoadProgress
    \/ Discover
    \/ \E id \in Ids : WorkerTask(id)
    \/ Collect
    \/ CommitSerialize
    \/ CommitReplace
    \/ CommitCleanup
    \/ SaveOpen
    \/ SaveWrite
    \/ delete_unprocessed_source_jsons

\* A script that has been started runs on, and the generation stage is started
\* again and again.
SpecLoop == InitLoop /\ [][NextLoop]_vars /\ WF_vars(NextLoop)

\* Every id of the dataset is in the main store and the ledger is empty.
AllConverted ==
    /\ \A id \in Ids : InMain(mainFile, id)
    /\ load_unprocessed_personas_data(ledgerFile) = EmptyLedger

\* C30: from an empty results directory, running generation, conversion and
\* deletion again and again eventually has every id of the dataset in the main
\* store and the ledger empty.
C30_EventuallyAllConverted ==
    (\A id \in Ids : artifacts[id] = Absent) => <>AllConverted

\* ---- C31
\* The dataset ids that have no success artifact in the results directory.
WithoutArtifact == {id \in Ids : artifacts[id].kind = "absent"}

\* C31: a generation script whose imports succeed, on a machine with a GPU,
\* ends having given the workers exactly the ids that have no success
\* artifact: those ids are its remaining personas, some chunk is dispatched
\* when there is one, none when there is none, and the script does not fail.
C31_Resumable ==
    (mpc = "exited" /\ has_batch_size /\ num_gpus > 0) =>
        /\ exit_status = 0
        /\ personas_to_process_tuples = SortedIds(WithoutArtifact)
        /\ (dispatched = 0) <=> (WithoutArtifact = {})

\* The part that holds: nothing is dispatched when every id has an artifact.
C31_NothingWhenComplete ==
    (mpc = "exited" /\ WithoutArtifact = {}) => dispatched = 0

\* ---- C32
\* A record that has keys, none of them a key of FIELD_DEFINITIONS.
UnknownOnly(file) ==
    /\ file.kind = "json" /\ file.root = "dict"
    /\ file.data # <<>>
    /\ \A i \in 1..Len(file.data) : file.data[i][1] \notin FieldKeys

\* C32: the conversion of a record made only of unknown keys raises nothing
\* and does not have the status success.
C32_UnknownOnlyNeverSuccess ==
    (cpc = "done" /\ UnknownOnly(WithExtra(c_in.file, c_in.extra, c_in.front))) =>
        /\ ~c_out.resx.raised
        /\ c_out.resx.status # "success"

====
